---- MODULE Spec2Model ----
(***************************************************************************)
(* Model of Flite-1.0.0/LinkedList/UnrolledLinkedList.py: the unrolled     *)
(* linked list (a chain of fixed-capacity node arrays) and its node; and   *)
(* of Flite-1.0.0/Queue/BatchedQueue.py: the queue popped in batches; and   *)
(* of Flite-1.0.0/LinkedList/SinglyLinkedList.py: the singly linked list   *)
(* and its node; and of Flite-1.0.0/Queue/BatchedPriorityQueue.py: the     *)
(* group of priority queues.  The objects are independent: Spec runs the   *)
(* unrolled list, SpecBQ the queue, SpecSLL the singly linked list, SpecPQ *)
(* the priority-queue group.                                               *)
(*                                                                         *)
(* Conventions of the translation.                                         *)
(*  - Statements are modelled by their run-time meaning: conditions,       *)
(*    index arithmetic, slice assignments, the attributes that are read    *)
(*    and written, and the exceptions they raise.                          *)
(*  - Name binding is not modelled: a keyword argument is bound to the     *)
(*    parameter that plays its role (vals= to iterable, __x/__y to the two *)
(*    operands of math.remainder, predicate/iterable of takewhile); the    *)
(*    base class AbstractLinkedList, which is not in the sources, supplies *)
(*    len(self) = self._size; the body-less method header at line 68 is    *)
(*    left out.  The abstract-method bookkeeping of the ABCs is not        *)
(*    modelled either: a SinglyLinkedNode and a SinglyLinkedList can be    *)
(*    created.                                                             *)
(*  - Attributes are modelled by the name the interpreter looks up.        *)
(*    Inside class SinglyLinkedList, x.__next is the attribute             *)
(*    _SinglyLinkedList__next of x (field link below), which a node has    *)
(*    only once the list has assigned it; SinglyLinkedNode.__init__ sets   *)
(*    _SinglyLinkedNode__next, which the list never reads.  A node has     *)
(*    _linkedlist only once its linkedlist setter has run.  Reading an     *)
(*    absent attribute raises AttributeError.                              *)
(*  - In BatchedPriorityQueue.py an await that stands where the grammar    *)
(*    does not allow one (inside the lambda of line 195) is read as its    *)
(*    operand.  A coroutine function that is called without await returns  *)
(*    a coroutine object and does not run: pq.get() and pq.put(x) of an    *)
(*    asyncio.PriorityQueue, unless awaited, leave the queue as it is.     *)
(*  - An exception ends the operation where it is raised; the object keeps *)
(*    whatever was assigned before it.  err holds the exception, errLine   *)
(*    the source line that raised it.                                      *)
(*  - Element values are opaque scalars 1..NumVals.  A slot of a node      *)
(*    array holds a value, nan (the fill value of a fresh array) or None   *)
(*    (written over the slots a split has moved away).                     *)
(*  - dtype=Any is read as the object dtype.  Whether np.full stores the   *)
(*    np.nan object itself in the slots of an object array, or floats      *)
(*    converted from it, is decided by the numpy build; UnrolledNode's     *)
(*    __len__ tests the slots with "is not np.nan", so both outcomes are   *)
(*    kept (fillIsNpNan).                                                  *)
(***************************************************************************)
EXTENDS Integers, Sequences, FiniteSets, TLC

\* ------------------------------------------------------------- bounds
MaxCap == 4
NumVals == 2
MaxInit == 3
MaxOps == 3
MaxBatch == 2
MaxCalls == 6
MaxPuts == 5
MaxExtra == 2
NumTasks == 2
MaxTaskPuts == 1

\* ------------------------------------------------------------- values
\* The asyncio tasks of one event loop.
Tasks == 1..NumTasks

\* Python's None: an absent node reference, and the filler of cleared slots.
None == 0
\* np.nan, the fill value of a freshly created node array.
nan == -1

Vals == 1..NumVals
QueryVals == Vals \cup {None, nan}

\* node_capacity: its numeric value and whether its type is exactly int
\* (a numpy integer, say, has another type).  Line 27 raises for the type int
\* itself, so only a capacity of another integer type gets a node built.
Capacities == [n : (0 - 1)..MaxCap, isInt : BOOLEAN]

\* loadfactor in tenths, and whether its type is float.
LoadFactors ==
    [isFloat : {TRUE}, tenths : {0 - 1, 0, 2, 5, 6}]
        \cup [isFloat : {FALSE}, tenths : {0, 10}]

RECURSIVE SeqsUpTo(_)
SeqsUpTo(k) ==
    IF k = 0 THEN {<<>>}
    ELSE LET S == SeqsUpTo(k - 1)
         IN  S \cup {Append(s, v) : s \in {t \in S : Len(t) = k - 1}, v \in Vals}

\* The vals argument: absent (None) or a collection of values.
InitialVals ==
    {[given |-> FALSE, items |-> <<>>]}
        \cup {[given |-> TRUE, items |-> s] : s \in SeqsUpTo(MaxInit)}

\* ------------------------------------------------------------- state
VARIABLES
    phase,          \* "new" | "built" | "failed": before, after a successful, after a failed __init__
    err,            \* exception raised by the last operation, or "none"
    errLine,        \* source line that raised it, or 0
    initial,        \* the vals argument of the constructor
    node_capacity,  \* self.__node_capacity (the argument, before it is stored)
    loadfactor,     \* self.__loadfactor   (the argument, before it is stored)
    assigned,       \* lines 184-189 have run: the attributes exist
    size,           \* self._size
    node_count,     \* self.__node_count
    head,           \* self.__head: node id or None
    tail,           \* self.__tail: node id or None
    nodes,          \* the UnrolledNode objects created so far, by id
    hist,           \* the pushes called so far, in order
    ret,            \* the last contains call: its argument and "True", "False" or "raised"
    fillIsNpNan     \* the build: the fill slots of a fresh array are the np.nan object

listVars == <<phase, err, errLine, initial, node_capacity, loadfactor, assigned, size,
              node_count, head, tail, nodes, hist, ret, fillIsNpNan>>

\* The BatchedQueue object.
VARIABLES
    bqPhase,        \* "new" | "built" | "failed", as phase above
    batch_size,     \* self.__batch_size (the argument, before it is stored)
    maxsize,        \* the maxsize argument (no attribute stores it)
    queue,          \* self.__queue: every element appended so far, in order
    queue_start_index,    \* self.__start_index
    returned,       \* the elements of all batches pop has returned, in order
    calls,          \* the number of push and pop calls so far
    last            \* the last call: its arguments, outcome, and what it found

queueVars == <<bqPhase, batch_size, maxsize, queue, queue_start_index, returned, calls, last>>

\* The SinglyLinkedList object and the SinglyLinkedNode objects.
VARIABLES
    sl_phase,       \* "new" | "built" | "failed", as phase above
    sl_nodes,       \* the SinglyLinkedNode objects created so far, by id
    sl_head,        \* self.__head: node id or None
    sl_tail,        \* self.__tail: node id or None
    sl_size,        \* self._size
    sl_capacity,    \* self._capacity (the argument, before it is stored)
    sl_last         \* the last move call: its arguments, outcome, and the list it found

sllVars == <<sl_phase, sl_nodes, sl_head, sl_tail, sl_size, sl_capacity, sl_last>>

\* The BatchedPriorityQueue object (class BatchedQueue of BatchedPriorityQueue.py).
VARIABLES
    pq_phase,       \* "new" | "built" | "failed", as phase above
    pq_batch_size,  \* self.__batch_size (the argument, before it is stored)
    pq_size,        \* self.__size
    pq_group,       \* self.__pqGroup: for each index the PriorityQueue object it refers to
    pq_queues,      \* the PriorityQueue objects, by id: their elements in priority order
    pq_pc,          \* where a running rebalance stands: the loop and its index, or "idle"
    pq_extra,       \* extra_elements of the running rebalance: its length
    pq_last         \* the last call that returned or raised

pqVars == <<pq_phase, pq_batch_size, pq_size, pq_group, pq_queues, pq_pc, pq_extra, pq_last>>

\* The asyncio tasks that call the coroutines of the BatchedPriorityQueue.
VARIABLES
    tk_pc,          \* for each task: the coroutine it runs, the line it is at, its arguments
    tk_lock,        \* for each task: the Lock its call created (a local): "none" | "free" | "held"
    tk_run          \* the task the event loop is running, or 0

taskVars == <<tk_pc, tk_lock, tk_run>>

vars == <<listVars, queueVars, sllVars, pqVars, taskVars>>

\* What the operations of one object leave alone: the other objects.
notList == <<queueVars, sllVars, pqVars, taskVars>>
notQueue == <<listVars, sllVars, pqVars, taskVars>>
notSLL == <<listVars, queueVars, pqVars, taskVars>>
notPQ == <<listVars, queueVars, sllVars, taskVars>>
notTasks == <<listVars, queueVars, sllVars>>

\* ------------------------------------------------------------- helpers
\* int(a / b) for b > 0: truncation toward zero.
TruncDiv(a, b) == IF a >= 0 THEN a \div b ELSE 0 - ((0 - a) \div b)

Max(a, b) == IF a >= b THEN a ELSE b

\* math.remainder(x, y) for integers x >= 0, y > 0: x - n*y with n the integer
\* nearest to x/y, ties to even.
Remainder(x, y) ==
    LET r == x % y
        q == x \div y
    IN  IF 2 * r < y THEN r
        ELSE IF 2 * r > y THEN r - y
        ELSE IF q % 2 = 0 THEN r ELSE r - y

Ok(fields) == [err |-> "none", line |-> 0] @@ fields
Raise(e, l) == [err |-> e, line |-> l]

\* ------------------------------------------------------------- UnrolledNode
\* Mutant of NewArray: the array is allocated one slot too long.
NewArrayOneMore(n, items) ==
    [i \in 1..(n + 1) |-> IF i <= Len(items) THEN items[i] ELSE nan]

\* np.full(shape=(node_capacity,), fill_value=np.nan) followed by the copy of
\* the iterable's items into the leading slots.
NewArray(n, items) ==
    [i \in 1..n |-> IF i <= Len(items) THEN items[i] ELSE nan]

\* self.__index of a node on which the attribute does not exist: __init__
\* (lines 35-40) does not assign it.
NoIndex == 0 - 1

\* UnrolledNode.__init__(node_capacity, iterable).  iterable.sized is FALSE for
\* an argument that has no len() (a scalar element).
UnrolledNode(nc, iterable) ==
    IF nc.isInt THEN Raise("TypeError", 28)
    ELSE IF nc.n <= 0 THEN Raise("ValueError", 30)
    ELSE IF ~iterable.sized THEN Raise("TypeError", 31)
    ELSE IF Len(iterable.items) > nc.n THEN Raise("ValueError", 32)
    ELSE Ok([node |-> [array |-> NewArray(nc.n, iterable.items),
                       UnrolledNode_next |-> None,
                       index |-> NoIndex]])

Sized(items) == [sized |-> TRUE, items |-> items]
Scalar(v) == [sized |-> FALSE, items |-> <<v>>]

\* x is np.nan, for a slot x: an identity test, which a fill slot passes
\* only when the build stored the np.nan object itself.
IsNpNan(x) == x = nan /\ fillIsNpNan

\* UnrolledNode.__len__: the number of leading slots that are not np.nan.
RECURSIVE TakeWhileNotNan(_, _)
TakeWhileNotNan(array, i) ==
    IF i > Len(array) \/ IsNpNan(array[i]) THEN 0
    ELSE 1 + TakeWhileNotNan(array, i + 1)

NodeLen(array) == TakeWhileNotNan(array, 1)

\* item == val for two slot values: np.nan compares unequal to everything,
\* itself included.
PyEq(a, b) == a # nan /\ b # nan /\ a = b

\* UnrolledNode.contains: any(item == val for item in the whole array).
NodeContains(array, val) == \E i \in 1..Len(array) : PyEq(array[i], val)

\* ------------------------------------------------------------- __init__
\* Mutant of LoadfactorOutOfRange: the lower bound is inclusive.
LoadfactorOutOfRangeZeroAllowed(lf) == lf.tenths < 0 \/ lf.tenths > 5

\* The range check on loadfactor (line 181).
LoadfactorOutOfRange(lf) == lf.tenths <= 0 \/ lf.tenths > 5

\* mean_vals_per_node = int(loadfactor * node_capacity + 1)
MeanValsPerNode(lf, nc) == TruncDiv(lf.tenths * nc.n + 10, 10)

\* UnrolledLinkedList.__init__: the outcome, with the attributes as they are
\* when it returns or raises.  For a non-empty vals the head node is built from
\* the single element vals[mean + int(remainder != 0)], so UnrolledNode raises
\* (or the index is out of range) and lines 198-208 are never reached.
Construct(vals, nc, lf) ==
    LET unassigned == [assigned |-> FALSE, size |-> 0, node_count |-> 0]
        fresh == [assigned |-> TRUE, size |-> 0, node_count |-> 0]
        n == Len(vals.items)
        mean == MeanValsPerNode(lf, nc)
        counted == [assigned |-> TRUE, size |-> n, node_count |-> 0]
        count == IF mean > 0 THEN Max(n \div mean, 1) ELSE 0
        full == [assigned |-> TRUE, size |-> n, node_count |-> count]
        idx == IF mean > 0
               THEN mean + (IF Remainder(n, mean) # 0 THEN 1 ELSE 0)
               ELSE 0
        made == UnrolledNode(nc, Scalar(vals.items[idx + 1]))
    IN  IF ~lf.isFloat THEN Raise("TypeError", 180) @@ unassigned
        ELSE IF LoadfactorOutOfRange(lf) THEN Raise("ValueError", 182) @@ unassigned
        ELSE IF ~(vals.given /\ n > 0) THEN Ok(fresh)
        ELSE IF mean = 0 THEN Raise("ZeroDivisionError", 194) @@ counted
        ELSE IF idx >= n THEN Raise("IndexError", 196) @@ full
        ELSE Raise(made.err, made.line) @@ full

\* No call yet: the record kept of the last call.
NoCall ==
    [op |-> "none", enforce |-> FALSE, element |-> None, err |-> "none", line |-> 0,
     batch |-> <<>>, lenBefore |-> 0, unreturnedBefore |-> 0, startBefore |-> 0]

QueueInit ==
    /\ bqPhase = "new"
    /\ batch_size = 1
    /\ maxsize = 0
    /\ queue = <<>>
    /\ queue_start_index = 0
    /\ returned = <<>>
    /\ calls = 0
    /\ last = NoCall

\* No move call yet.
NoMove ==
    [op |-> "none", a |-> None, b |-> None, err |-> "none", line |-> 0,
     before |-> [head |-> None, tail |-> None, links |-> <<>>, size |-> 0]]

SLLInit ==
    /\ sl_phase = "new"
    /\ sl_nodes = <<>>
    /\ sl_head = None
    /\ sl_tail = None
    /\ sl_size = 0
    /\ sl_capacity = [given |-> FALSE, n |-> 0]
    /\ sl_last = NoMove

\* extra_elements = list() (line 156).  n is its length, up to MaxExtra (which
\* stands for MaxExtra or more); odd is the parity of the length.
EmptyList == [n |-> 0, odd |-> FALSE]

Idle == [at |-> "idle", index |-> 0]

\* A task not created yet.
NoTask ==
    [op |-> "none", st |-> "idle", at |-> 0, new |-> 0, keep |-> FALSE,
     err |-> "none", line |-> 0]

TaskInit ==
    /\ tk_pc = [t \in Tasks |-> NoTask]
    /\ tk_lock = [t \in Tasks |-> "none"]
    /\ tk_run = 0

PQInit ==
    /\ pq_phase = "new"
    /\ pq_batch_size = 1
    /\ pq_size = 0
    /\ pq_group = <<>>
    /\ pq_queues = <<>>
    /\ pq_pc = Idle
    /\ pq_extra = EmptyList
    /\ pq_last = [op |-> "none", err |-> "none", line |-> 0, storedBefore |-> 0]

Init ==
    /\ QueueInit
    /\ SLLInit
    /\ PQInit
    /\ TaskInit
    /\ phase = "new"
    /\ err = "none"
    /\ errLine = 0
    /\ initial = [given |-> FALSE, items |-> <<>>]
    /\ node_capacity = [n |-> 10, isInt |-> TRUE]
    /\ loadfactor = [isFloat |-> TRUE, tenths |-> 5]
    /\ assigned = FALSE
    /\ size = 0
    /\ node_count = 0
    /\ head = None
    /\ tail = None
    /\ nodes = <<>>
    /\ hist = <<>>
    /\ ret = [val |-> None, value |-> "none"]
    /\ fillIsNpNan \in BOOLEAN

\* UnrolledLinkedList(vals, node_capacity=nc, loadfactor=lf)
New ==
    /\ phase = "new"
    /\ \E vals \in InitialVals, nc \in Capacities, lf \in LoadFactors :
         LET r == Construct(vals, nc, lf)
         IN  /\ phase' = IF r.err = "none" THEN "built" ELSE "failed"
             /\ err' = r.err
             /\ errLine' = r.line
             /\ initial' = vals
             /\ node_capacity' = nc
             /\ loadfactor' = lf
             /\ assigned' = r.assigned
             /\ size' = r.size
             /\ node_count' = r.node_count
    /\ UNCHANGED <<head, tail, nodes, hist, ret, fillIsNpNan>>
    /\ UNCHANGED notList

\* ------------------------------------------------------------- pushes
\* is_empty(): self.__head is None
is_empty == head = None

\* The list's references and nodes as an operation found them.
Unchanged == [nodes |-> nodes, head |-> head, tail |-> tail]

\* The edge case shared by push_back and push_front (lines 338-339, 383-384):
\* on an empty list a node holding val becomes head and tail; control then
\* falls through to the rest of the method.
EdgeCase(val) ==
    IF ~is_empty THEN Ok(Unchanged)
    ELSE LET made == UnrolledNode(node_capacity, Sized(<<val>>))
         IN  IF made.err # "none" THEN made @@ Unchanged
             ELSE Ok([nodes |-> Append(nodes, made.node),
                      head |-> Len(nodes) + 1,
                      tail |-> Len(nodes) + 1])

\* start_index = int(node_capacity * 0.5 + int(node_capacity % 2 == 1))
StartIndex(n) == TruncDiv(n + 2 * (IF n % 2 = 1 THEN 1 ELSE 0), 2)

\* int(node_capacity * 0.5)
HalfCapacity(n) == TruncDiv(n, 2)

\* arr[from:to] in Python's 0-based, end-exclusive indices.
Slice(arr, from, to) ==
    [i \in 1..Max(to - from, 0) |-> arr[from + i]]

\* arr[from:from + len(src)] = src
SetSlice(arr, from, src) ==
    [i \in 1..Len(arr) |->
        IF i > from /\ i <= from + Len(src) THEN src[i - from] ELSE arr[i]]

Repeat(v, k) == [i \in 1..k |-> v]

\* Mutant of PushBackResult: line 355 links the new node from the head instead
\* of the tail.
PushBackResultLinkingHead(val) ==
    LET e == EdgeCase(val)
    IN  IF e.err # "none" THEN e
        ELSE
        LET n == node_capacity.n
            arr == e.nodes[e.tail].array
        IN  IF Len(arr) < n
            THEN Raise("IndexError", 344) @@ e
            ELSE
            LET start_index == StartIndex(n)
                made == UnrolledNode(node_capacity, Sized(Slice(arr, start_index, Len(arr))))
            IN  IF made.err # "none" THEN made @@ e
                ELSE
                LET newArray == [made.node.array EXCEPT ![HalfCapacity(n) + 1] = val]
                    oldArray == SetSlice(arr, start_index, Repeat(None, HalfCapacity(n)))
                    id == Len(e.nodes) + 1
                    linked == [e.nodes EXCEPT ![e.tail].array = oldArray,
                                              ![e.head].UnrolledNode_next = id]
                IN  Ok([nodes |-> Append(linked, [made.node EXCEPT !.array = newArray]),
                        head |-> e.head,
                        tail |-> id])

\* push_back(val), lines 333-356.  len(arr) is the length of the numpy array,
\* which is node_capacity whatever the array holds.
PushBackResult(val) ==
    LET e == EdgeCase(val)
    IN  IF e.err # "none" THEN e
        ELSE
        LET n == node_capacity.n
            arr == e.nodes[e.tail].array
        IN  IF Len(arr) < n
            THEN Raise("IndexError", 344) @@ e
            ELSE
            LET start_index == StartIndex(n)
                made == UnrolledNode(node_capacity, Sized(Slice(arr, start_index, Len(arr))))
            IN  IF made.err # "none" THEN made @@ e
                ELSE
                LET newArray == [made.node.array EXCEPT ![HalfCapacity(n) + 1] = val]
                    oldArray == SetSlice(arr, start_index, Repeat(None, HalfCapacity(n)))
                    id == Len(e.nodes) + 1
                    linked == [e.nodes EXCEPT ![e.tail].array = oldArray,
                                              ![e.tail].UnrolledNode_next = id]
                IN  Ok([nodes |-> Append(linked, [made.node EXCEPT !.array = newArray]),
                        head |-> e.head,
                        tail |-> id])

PushBack ==
    /\ phase = "built"
    /\ Len(hist) < MaxOps
    /\ \E val \in Vals :
         LET r == PushBackResult(val)
         IN  /\ err' = r.err
             /\ errLine' = r.line
             /\ nodes' = r.nodes
             /\ head' = r.head
             /\ tail' = r.tail
             /\ hist' = Append(hist, [op |-> "push_back", val |-> val])
    /\ ret' = [val |-> None, value |-> "none"]
    /\ UNCHANGED <<phase, initial, node_capacity, loadfactor, assigned, size, node_count,
                   fillIsNpNan>>
    /\ UNCHANGED notList

\* push_front(val), lines 378-403.  len(self.__head) is UnrolledNode.__len__.
\* The shift loop runs index = len(head), ..., 2 and copies arr[index - 1] to
\* arr[index]; each copy reads a slot not yet written.
PushFrontResult(val) ==
    LET e == EdgeCase(val)
    IN  IF e.err # "none" THEN e
        ELSE
        LET n == node_capacity.n
            arr == e.nodes[e.head].array
            filled == NodeLen(arr)
        IN  IF filled < n
            THEN
            LET shifted == [i \in 1..Len(arr) |->
                               IF i = 1 THEN val
                               ELSE IF i >= 3 /\ i <= filled + 1 THEN arr[i - 1]
                               ELSE arr[i]]
            IN  Ok([nodes |-> [e.nodes EXCEPT ![e.head].array = shifted],
                    head |-> e.head,
                    tail |-> e.tail])
            ELSE
            LET end_index == HalfCapacity(n)
                made == UnrolledNode(node_capacity, Sized(<<val>>))
            IN  IF made.err # "none" THEN made @@ e
                \* arr[:end_index] = arr[end_index:node_capacity]: numpy accepts
                \* a source of the target's length, or of length 1 (broadcast).
                ELSE IF n - end_index # end_index /\ n - end_index # 1
                THEN Raise("ValueError", 398) @@ e
                ELSE
                LET newArray == SetSlice(made.node.array, 1, Slice(arr, 0, end_index))
                    moved == SetSlice(arr, 0, Slice(arr, end_index, end_index + end_index))
                    oldArray == SetSlice(moved, end_index, Repeat(None, n - end_index))
                    id == Len(e.nodes) + 1
                    old == [e.nodes EXCEPT ![e.head].array = oldArray]
                IN  Ok([nodes |-> Append(old, [made.node EXCEPT
                                                  !.array = newArray,
                                                  !.UnrolledNode_next = e.head]),
                        head |-> id,
                        tail |-> e.tail])

PushFront ==
    /\ phase = "built"
    /\ Len(hist) < MaxOps
    /\ \E val \in Vals :
         LET r == PushFrontResult(val)
         IN  /\ err' = r.err
             /\ errLine' = r.line
             /\ nodes' = r.nodes
             /\ head' = r.head
             /\ tail' = r.tail
             /\ hist' = Append(hist, [op |-> "push_front", val |-> val])
    /\ ret' = [val |-> None, value |-> "none"]
    /\ UNCHANGED <<phase, initial, node_capacity, loadfactor, assigned, size, node_count,
                   fillIsNpNan>>
    /\ UNCHANGED notList

\* ------------------------------------------------------------- contains
\* The next getter as it would be if a missing __index read as the last slot
\* and _next were the link the pushes write: line 106 then resets the cursor
\* of the following node.
NextOfAdvancing(ns, id) ==
    LET link == ns[id].UnrolledNode_next
    IN  IF link = None THEN Ok([node |-> None, nodes |-> ns])
        ELSE Ok([node |-> link, nodes |-> [ns EXCEPT ![link].index = 0]])

\* UnrolledNode.next (lines 96-108) on node id of the nodes ns: the node it
\* returns and the nodes as it leaves them.  It reads self.__index first
\* (line 103), which raises where the attribute does not exist; at the last
\* slot it reads self._next (line 104), an attribute that only the setter
\* (line 121) and the unreached line 204 assign; otherwise it returns self.
NextOf(ns, id) ==
    IF ns[id].index = NoIndex
    THEN Raise("AttributeError", 103) @@ [node |-> None, nodes |-> ns]
    ELSE IF ns[id].index = node_capacity.n - 1
    THEN Raise("AttributeError", 104) @@ [node |-> None, nodes |-> ns]
    ELSE Ok([node |-> id, nodes |-> ns])

NextProperty(id) == NextOf(nodes, id)

\* The loop of contains (lines 276-281) from node curr; fuel bounds the
\* iterations, and a scan that outlives it does not return ("unending").
RECURSIVE Scan(_, _, _, _)
Scan(curr, val, ns, fuel) ==
    IF curr = None THEN Ok([value |-> "False", nodes |-> ns])
    ELSE IF fuel = 0 THEN Ok([value |-> "unending", nodes |-> ns])
    ELSE IF NodeContains(ns[curr].array, val) THEN Ok([value |-> "True", nodes |-> ns])
    ELSE LET r == NextOf(ns, curr)
         IN  IF r.err # "none"
             THEN Raise(r.err, r.line) @@ [value |-> "raised", nodes |-> r.nodes]
             ELSE Scan(r.node, val, r.nodes, fuel - 1)

\* contains(val), lines 271-281: is_empty(), then the scan from the head.
ContainsResult(val) ==
    IF is_empty THEN Ok([value |-> "False", nodes |-> nodes])
    ELSE Scan(head, val, nodes, Len(nodes) + 1)

Contains ==
    /\ phase = "built"
    /\ \E val \in QueryVals :
         LET r == ContainsResult(val)
         IN  /\ err' = r.err
             /\ errLine' = r.line
             /\ ret' = [val |-> val, value |-> r.value]
             /\ nodes' = r.nodes
    /\ UNCHANGED <<phase, initial, node_capacity, loadfactor, assigned, size,
                   node_count, head, tail, hist, fillIsNpNan>>
    /\ UNCHANGED notList

Next == New \/ PushBack \/ PushFront \/ Contains

Spec == Init /\ [][Next]_vars

\* ------------------------------------------------------------- BatchedQueue
\* batch_size: its value and whether its type is exactly int.
BatchSizes == [n : 0..MaxBatch, isInt : BOOLEAN]
MaxSizes == 0..MaxBatch

\* BatchedQueue.__init__, lines 14-32: the outcome of the argument checks.
BatchedQueueInit(bs) ==
    IF ~bs.isInt THEN Raise("TypeError", 25)
    ELSE IF bs.n <= 0 THEN Raise("ValueError", 27)
    ELSE [err |-> "none", line |-> 0]

\* BatchedQueue(batch_size=bs, maxsize=ms)
NewQueue ==
    /\ bqPhase = "new"
    /\ \E bs \in BatchSizes, ms \in MaxSizes :
         LET r == BatchedQueueInit(bs)
         IN  /\ bqPhase' = IF r.err = "none" THEN "built" ELSE "failed"
             /\ batch_size' = bs.n
             /\ maxsize' = ms
             /\ last' = [NoCall EXCEPT !.op = "init", !.err = r.err, !.line = r.line]
    /\ UNCHANGED <<queue, queue_start_index, returned, calls>>
    /\ UNCHANGED notQueue

\* __len__ (lines 39-45), which size() returns too.
BatchedQueueLen == Len(queue) - queue_start_index

\* The elements pushed and not returned by any pop so far.
Unreturned == Len(queue) - Len(returned)

Min(a, b) == IF a <= b THEN a ELSE b

\* A slice bound as numpy reads it on an array of n elements: a negative
\* bound counts from the end, and every bound is cut to 0..n.
SliceBound(i, n) == IF i < 0 THEN Max(i + n, 0) ELSE Min(i, n)

\* q[from:to] on an array: empty when the bounds cross.
ArraySlice(q, from, to) ==
    [i \in 1..(SliceBound(to, Len(q)) - SliceBound(from, Len(q))) |->
        q[SliceBound(from, Len(q)) + i]]

\* What every call records of the state it found.
Found(op, enforce, element) ==
    [NoCall EXCEPT !.op = op, !.enforce = enforce, !.element = element,
                   !.lenBefore = BatchedQueueLen,
                   !.unreturnedBefore = Unreturned,
                   !.startBefore = queue_start_index]

\* pop(enforce), lines 110-113.
PopResult(enforce) ==
    IF enforce /\ BatchedQueueLen < batch_size
    THEN Raise("ValueError", 111) @@ [start_index |-> queue_start_index, batch |-> <<>>]
    ELSE Ok([start_index |-> queue_start_index + batch_size,
             batch |-> ArraySlice(queue, queue_start_index, queue_start_index + batch_size)])

Pop ==
    /\ bqPhase = "built"
    /\ calls < MaxCalls
    /\ \E enforce \in BOOLEAN :
         LET r == PopResult(enforce)
         IN  /\ queue_start_index' = r.start_index
             /\ returned' = returned \o r.batch
             /\ last' = [Found("pop", enforce, None) EXCEPT
                            !.err = r.err, !.line = r.line, !.batch = r.batch]
    /\ calls' = calls + 1
    /\ UNCHANGED <<bqPhase, batch_size, maxsize, queue>>
    /\ UNCHANGED notQueue

\* push(element), lines 126-129.  np.append on the float array keeps the
\* value of an integer element (1 is stored as 1.0, and 1 == 1.0).
PushResult(element) ==
    IF 0 < batch_size /\ batch_size = BatchedQueueLen
    THEN Raise("ValueError", 127) @@ [queue |-> queue]
    ELSE Ok([queue |-> Append(queue, element)])

Push ==
    /\ bqPhase = "built"
    /\ calls < MaxCalls
    /\ \E element \in Vals :
         LET r == PushResult(element)
         IN  /\ queue' = r.queue
             /\ last' = [Found("push", FALSE, element) EXCEPT
                            !.err = r.err, !.line = r.line]
    /\ calls' = calls + 1
    /\ UNCHANGED <<bqPhase, batch_size, maxsize, queue_start_index, returned>>
    /\ UNCHANGED notQueue

\* is_empty(), lines 89-91: self.__start_index == len(self).
BatchedQueueIsEmpty == queue_start_index = BatchedQueueLen

\* clear(), line 81: self.__start_index = len(self).
Clear ==
    /\ bqPhase = "built"
    /\ calls < MaxCalls
    /\ queue_start_index' = BatchedQueueLen
    /\ last' = Found("clear", FALSE, None)
    /\ calls' = calls + 1
    /\ UNCHANGED <<bqPhase, batch_size, maxsize, queue, returned>>
    /\ UNCHANGED notQueue

\* The queue runs while no list is constructed.
InitBQ == Init /\ fillIsNpNan

NextBQ == NewQueue \/ Push \/ Pop

SpecBQ == InitBQ /\ [][NextBQ]_vars

\* The queue with clear() among its calls.
NextBQClear == NewQueue \/ Push \/ Pop \/ Clear

SpecBQClear == InitBQ /\ [][NextBQClear]_vars

\* ------------------------------------------------------------- SinglyLinkedList
\* An attribute the object does not have (yet).
Unset == 0 - 2
\* The value -1 that move_before and move_after give a predecessor not found
\* yet (lines 404-405, 457-458).
NotFound == 0 - 1

\* SinglyLinkedNode(val): the list-side link and the owner are not set.
SinglyLinkedNode(val) == [val |-> val, link |-> Unset, owner |-> "unset"]

\* The iterable argument: absent, or n values.
Iterables ==
    {[given |-> FALSE, items |-> <<>>]}
        \cup {[given |-> TRUE, items |-> [i \in 1..n |-> ((i - 1) % NumVals) + 1]] :
                n \in 0..MaxInit}

\* The capacity argument: absent, or an int.
SLLCapacities ==
    {[given |-> FALSE, n |-> 0], [given |-> TRUE, n |-> MaxInit - 1]}

\* The nodes lines 142-154 create for the items, each linked to the next
\* (line 152); the last one is never assigned a link.
BuiltNodes(items) ==
    [i \in 1..Len(items) |->
        [SinglyLinkedNode(items[i]) EXCEPT
            !.link = IF i < Len(items) THEN i + 1 ELSE Unset]]

\* SinglyLinkedList.__init__, lines 125-158.
SinglyLinkedListInit(iterable, capacity) ==
    LET n == Len(iterable.items)
        empty == [nodes |-> <<>>, head |-> None, tail |-> None, size |-> 0]
        built == [nodes |-> BuiltNodes(iterable.items),
                  head |-> IF n = 0 THEN None ELSE 1,
                  tail |-> IF n = 0 THEN None ELSE n,
                  size |-> n]
    IN  IF capacity.given /\ ~iterable.given THEN Raise("TypeError", 134) @@ empty
        ELSE IF capacity.given /\ n > capacity.n THEN Raise("ValueError", 135) @@ empty
        ELSE IF ~iterable.given THEN Raise("TypeError", 157) @@ empty
        ELSE Ok(built)

\* SinglyLinkedList(iterable, capacity)
NewList ==
    /\ sl_phase = "new"
    /\ \E iterable \in Iterables, capacity \in SLLCapacities :
         LET r == SinglyLinkedListInit(iterable, capacity)
         IN  /\ sl_phase' = IF r.err = "none" THEN "built" ELSE "failed"
             /\ sl_nodes' = r.nodes
             /\ sl_head' = r.head
             /\ sl_tail' = r.tail
             /\ sl_size' = r.size
             /\ sl_capacity' = capacity
             /\ sl_last' = [NoMove EXCEPT !.op = "init", !.err = r.err, !.line = r.line]
    /\ UNCHANGED notSLL

\* A caller creates a node of its own: SinglyLinkedNode(val).  One such node
\* is enough to stand for a node outside the list.
MakeNode ==
    /\ sl_phase = "built"
    /\ Len(sl_nodes) = sl_size
    /\ \E val \in Vals : sl_nodes' = Append(sl_nodes, SinglyLinkedNode(val))
    /\ UNCHANGED <<sl_phase, sl_head, sl_tail, sl_size, sl_capacity, sl_last>>
    /\ UNCHANGED notSLL

\* node.linkedlist = ll (the setter, lines 110-119), with this list or another.
SetLinkedlist ==
    /\ sl_phase = "built"
    /\ \E id \in 1..Len(sl_nodes), ll \in {"self", "other"} :
         /\ sl_nodes[id].owner # ll
         /\ sl_nodes' = [sl_nodes EXCEPT ![id].owner = ll]
    /\ UNCHANGED <<sl_phase, sl_head, sl_tail, sl_size, sl_capacity, sl_last>>
    /\ UNCHANGED notSLL

\* The list as a move finds it, and as it runs: nodes, head, and the
\* exception raised so far.
Running == [nodes |-> sl_nodes, head |-> sl_head, err |-> "none", line |-> 0]

Stop(s, e, l) == [s EXCEPT !.err = e, !.line = l]

\* x.__next can be read: x is a node that has the attribute.
HasLink(s, x) == x >= 1 /\ s.nodes[x].link # Unset

\* The statement x.__next = y at line l.
SetNext(s, x, y, l) ==
    IF s.err # "none" THEN s
    ELSE IF x < 1 THEN Stop(s, "AttributeError", l)
    ELSE [s EXCEPT !.nodes[x].link = y]

\* The statement x.__next = src.__next at line l.
SetNextFrom(s, x, src, l) ==
    IF s.err # "none" THEN s
    ELSE IF ~HasLink(s, src) THEN Stop(s, "AttributeError", l)
    ELSE SetNext(s, x, s.nodes[src].link, l)

\* The statement self.__head = self.__head.__next at line l.
AdvanceHead(s, l) ==
    IF s.err # "none" THEN s
    ELSE IF ~HasLink(s, s.head) THEN Stop(s, "AttributeError", l)
    ELSE [s EXCEPT !.head = s.nodes[s.head].link]

\* The statement self.__head = y.
SetHead(s, y) == IF s.err # "none" THEN s ELSE [s EXCEPT !.head = y]

\* The argument checks of move_before (lines 390-401) and move_after
\* (lines 443-454, first being the line of the is_empty check).  The
\* linkedlist getter (line 107) raises when _linkedlist was never set.
MoveChecks(a, b, first) ==
    IF sl_head = None THEN Raise("ValueError", first + 1)
    ELSE IF a = b THEN Raise("ValueError", first + 7)
    ELSE IF sl_nodes[a].owner = "unset" THEN Raise("AttributeError", 107)
    ELSE IF sl_nodes[a].owner # "self" THEN Raise("ValueError", first + 9)
    ELSE IF sl_nodes[b].owner = "unset" THEN Raise("AttributeError", 107)
    ELSE IF sl_nodes[b].owner # "self" THEN Raise("ValueError", first + 11)
    ELSE [err |-> "none", line |-> 0]

\* The loop test with "and" in place of "or".
LoopTestAnd(bm, br) ==
    IF bm >= 1 THEN "raise"
    ELSE IF bm = None THEN "exit"
    ELSE IF br >= 1 THEN "raise"
    ELSE IF br = None THEN "exit"
    ELSE "enter"

\* before_node_to_move == -1 or before_node_referenced == -1 (lines 407, 460).
\* None == -1 is False; on a node, == is SinglyLinkedNode.__eq__ (lines
\* 41-51), which reads the attribute __val of the int and raises.
LoopTest(bm, br) ==
    IF bm = NotFound THEN "enter"
    ELSE IF bm >= 1 THEN "raise"
    ELSE IF br = NotFound THEN "enter"
    ELSE IF br >= 1 THEN "raise"
    ELSE "exit"

\* The search for the two predecessors (lines 404-414, 457-467); first is
\* the line of the while.
RECURSIVE FindBefore(_, _, _, _, _, _, _)
FindBefore(a, b, curr, bm, br, first, fuel) ==
    LET test == LoopTest(bm, br)
        found == [bm |-> bm, br |-> br]
        next == sl_nodes[curr].link
    IN  IF test = "exit" THEN Ok(found)
        ELSE IF test = "raise" THEN Raise("AttributeError", 51) @@ found
        ELSE IF fuel = 0 \/ curr < 1 \/ next = Unset
             THEN Raise("AttributeError", first + 1) @@ found
        ELSE IF next = None THEN Raise("ValueError", first + 6) @@ found
        ELSE FindBefore(a, b, next,
                        IF next = a THEN curr ELSE bm,
                        IF next = b THEN curr ELSE br,
                        first, fuel - 1)

Predecessors(a, b, first) ==
    FindBefore(a, b, sl_head,
               IF a = sl_head THEN None ELSE NotFound,
               IF b = sl_head THEN None ELSE NotFound,
               first, Len(sl_nodes))

\* The relinking of move_before, lines 417-431.
RelinkBefore(a, b, bm, br) ==
    IF a = sl_head
    THEN SetNext(SetNext(AdvanceHead(Running, 418), a, b, 419), br, a, 420)
    ELSE IF b = sl_head
    THEN SetHead(SetNext(SetNextFrom(Running, bm, a, 424), a, b, 425), a)
    ELSE SetNext(SetNext(SetNextFrom(Running, bm, a, 429), br, a, 430), a, b, 431)

\* The relinking of move_after, lines 470-484.
RelinkAfter(a, b, bm, br) ==
    IF a = sl_head
    THEN SetNext(SetNextFrom(AdvanceHead(Running, 471), a, b, 472), b, a, 473)
    ELSE IF b = sl_head
    THEN SetNext(SetNextFrom(SetNextFrom(Running, bm, a, 477), a, sl_head, 478),
                 sl_head, a, 479)
    ELSE SetNext(SetNextFrom(SetNextFrom(Running, bm, a, 482), a, b, 483), b, a, 484)

\* move_before(node_to_move=a, node_referenced=b), lines 380-431.
MoveBeforeResult(a, b) ==
    LET checked == MoveChecks(a, b, 390)
        found == Predecessors(a, b, 407)
    IN  IF checked.err # "none" THEN Stop(Running, checked.err, checked.line)
        ELSE IF found.err # "none" THEN Stop(Running, found.err, found.line)
        ELSE RelinkBefore(a, b, found.bm, found.br)

\* move_after(node_to_move=a, node_referenced=b), lines 433-484.
MoveAfterResult(a, b) ==
    LET checked == MoveChecks(a, b, 443)
        found == Predecessors(a, b, 460)
    IN  IF checked.err # "none" THEN Stop(Running, checked.err, checked.line)
        ELSE IF found.err # "none" THEN Stop(Running, found.err, found.line)
        ELSE RelinkAfter(a, b, found.bm, found.br)

\* head, tail, every link and the size.
Links(nds) == [i \in 1..Len(nds) |-> nds[i].link]

ListNow ==
    [head |-> sl_head, tail |-> sl_tail, links |-> Links(sl_nodes), size |-> sl_size]

MoveBefore ==
    /\ sl_phase = "built"
    /\ \E a \in 1..Len(sl_nodes), b \in 1..Len(sl_nodes) :
         LET r == MoveBeforeResult(a, b)
         IN  /\ sl_nodes' = r.nodes
             /\ sl_head' = r.head
             /\ sl_last' = [op |-> "move_before", a |-> a, b |-> b,
                            err |-> r.err, line |-> r.line, before |-> ListNow]
    /\ UNCHANGED <<sl_phase, sl_tail, sl_size, sl_capacity>>
    /\ UNCHANGED notSLL

MoveAfter ==
    /\ sl_phase = "built"
    /\ \E a \in 1..Len(sl_nodes), b \in 1..Len(sl_nodes) :
         LET r == MoveAfterResult(a, b)
         IN  /\ sl_nodes' = r.nodes
             /\ sl_head' = r.head
             /\ sl_last' = [op |-> "move_after", a |-> a, b |-> b,
                            err |-> r.err, line |-> r.line, before |-> ListNow]
    /\ UNCHANGED <<sl_phase, sl_tail, sl_size, sl_capacity>>
    /\ UNCHANGED notSLL

\* The list runs while no unrolled list and no queue is constructed.
InitSLL == Init /\ fillIsNpNan

NextSLL == NewList \/ MakeNode \/ SetLinkedlist \/ MoveBefore \/ MoveAfter

SpecSLL == InitSLL /\ [][NextSLL]_vars

\* ------------------------------------------------------------- BatchedPriorityQueue
\* __init__, lines 27-35.  np.repeat(a=[asyncio.PriorityQueue()], ...) makes
\* one PriorityQueue and repeats the reference to it batch_size times.
NewPriorityQueue ==
    /\ pq_phase = "new"
    /\ \E bs \in BatchSizes :
         LET r == IF ~bs.isInt THEN Raise("TypeError", 28)
                  ELSE IF bs.n <= 0 THEN Raise("ValueError", 30)
                  ELSE [err |-> "none", line |-> 0]
         IN  /\ pq_phase' = IF r.err = "none" THEN "built" ELSE "failed"
             /\ pq_batch_size' = bs.n
             /\ pq_group' = IF r.err = "none" THEN [i \in 1..bs.n |-> 1] ELSE <<>>
             /\ pq_queues' = IF r.err = "none" THEN << <<>> >> ELSE <<>>
             /\ pq_last' = [op |-> "init", err |-> r.err, line |-> r.line,
                            storedBefore |-> 0]
    /\ UNCHANGED <<pq_size, pq_pc, pq_extra>>
    /\ UNCHANGED notPQ

\* pq.qsize() of the queue at an index of the group.
QSize(index) == Len(pq_queues[pq_group[index]])

\* The elements stored, over the PriorityQueue objects.
RECURSIVE StoredFrom(_)
StoredFrom(id) ==
    IF id > Len(pq_queues) THEN 0 ELSE Len(pq_queues[id]) + StoredFrom(id + 1)

Stored == StoredFrom(1)

\* A PriorityQueue after put(element): the elements in priority order.
RECURSIVE Inserted(_, _)
Inserted(q, element) ==
    IF q = <<>> THEN <<element>>
    ELSE IF element <= Head(q) THEN <<element>> \o q
    ELSE <<Head(q)>> \o Inserted(Tail(q), element)

\* The first index whose queue is smallest: min(*[...], key=qsize), line 195.
MinIndex ==
    CHOOSE i \in 1..Len(pq_group) :
        /\ \A j \in 1..Len(pq_group) : QSize(i) <= QSize(j)
        /\ \A j \in 1..(i - 1) : QSize(j) > QSize(i)

\* put(element), lines 195-196.  With one queue in the group min() is given
\* the queue alone and iterates over it, which raises TypeError; with an
\* empty group (after resize(0)) min() is given no argument, and raises
\* TypeError too.
Put ==
    /\ pq_phase = "built"
    /\ pq_pc = Idle
    /\ Stored < MaxPuts
    /\ \E element \in Vals :
         IF Len(pq_group) <= 1
         THEN /\ pq_last' = [op |-> "put", err |-> "TypeError", line |-> 195,
                             storedBefore |-> Stored]
              /\ UNCHANGED pq_queues
         ELSE /\ pq_queues' = [pq_queues EXCEPT
                                 ![pq_group[MinIndex]] = Inserted(@, element)]
              /\ pq_last' = [op |-> "put", err |-> "none", line |-> 0,
                             storedBefore |-> Stored]
    /\ UNCHANGED <<pq_phase, pq_batch_size, pq_size, pq_group, pq_pc, pq_extra>>
    /\ UNCHANGED notPQ

\* rebalance() is called: lines 153-156, up to the first loop.
RebalanceCall ==
    /\ pq_phase = "built"
    /\ pq_pc = Idle
    /\ pq_pc' = [at |-> "collect", index |-> 1]
    /\ pq_extra' = EmptyList
    /\ pq_last' = [op |-> "rebalance called", err |-> "none", line |-> 0,
                   storedBefore |-> Stored]
    /\ UNCHANGED <<pq_phase, pq_batch_size, pq_size, pq_group, pq_queues>>
    /\ UNCHANGED notPQ

\* extra_elements.append(x) and extra_elements.pop()
Appended(l) == [n |-> IF l.n < MaxExtra THEN l.n + 1 ELSE MaxExtra, odd |-> ~l.odd]
Popped(l) == [n |-> l.n - 1, odd |-> ~l.odd]

\* The loop index after the queue at index is done; after the last queue the
\* next loop starts.
After(index, following) ==
    IF index < Len(pq_group) THEN [pq_pc EXCEPT !.index = index + 1]
    ELSE IF following = "idle" THEN Idle
    ELSE [at |-> following, index |-> 1]

Returned(e, l) ==
    [op |-> "rebalance", err |-> e, line |-> l, storedBefore |-> pq_last.storedBefore]

\* One test, with the body it leads to, of the loops of rebalance (lines
\* 159-173).  average_pq_size is len(self) / batch_size; qsize > average is
\* compared as qsize * batch_size > len(self).  pq.get() and pq.put(...) are
\* not awaited: the queue keeps its elements, and what is appended to
\* extra_elements is the coroutine object.
RebalanceStepResult ==
    LET i == pq_pc.index
        more == QSize(i) * pq_batch_size > pq_size
        less == QSize(i) * pq_batch_size < pq_size
        keep == [pc |-> pq_pc, extra |-> pq_extra, last |-> pq_last]
    IN  IF pq_pc.at = "collect"
        THEN IF more THEN [keep EXCEPT !.extra = Appended(pq_extra)]
             ELSE [keep EXCEPT !.pc = After(i, "refill")]
        ELSE IF pq_pc.at = "refill"
        THEN IF less
             THEN IF pq_extra.n = 0
                  THEN [keep EXCEPT !.pc = Idle, !.last = Returned("IndexError", 166)]
                  ELSE [keep EXCEPT !.extra = Popped(pq_extra)]
             ELSE [keep EXCEPT !.pc = After(i, "remaining")]
        ELSE IF pq_extra.n > 0
             THEN [keep EXCEPT !.extra = Popped(pq_extra),
                               !.pc = After(i, "idle"),
                               !.last = IF i < Len(pq_group) THEN pq_last
                                        ELSE Returned("none", 0)]
             ELSE [keep EXCEPT !.pc = Idle, !.last = Returned("none", 0)]

RebalanceStep ==
    /\ pq_pc # Idle
    /\ pq_pc' = RebalanceStepResult.pc
    /\ pq_extra' = RebalanceStepResult.extra
    /\ pq_last' = RebalanceStepResult.last
    /\ UNCHANGED <<pq_phase, pq_batch_size, pq_size, pq_group, pq_queues>>
    /\ UNCHANGED notPQ

\* The group runs while no other object is constructed.
InitPQ == Init /\ fillIsNpNan

NextPQ == NewPriorityQueue \/ Put \/ RebalanceCall \/ RebalanceStep

\* A rebalance that has been called keeps running: its loops hold no await.
SpecPQ == InitPQ /\ [][NextPQ]_vars /\ WF_vars(RebalanceStep)

\* ------------------------------------------------------------- tasks
\* The coroutines of BatchedPriorityQueue.py run as tasks of one event loop:
\* the loop runs one task at a time, and a running task keeps the loop until
\* an await of it has to wait, or until it ends.  Each step below is one
\* statement (or one loop test with its body) of the coroutine.

\* The coroutines a task may call, and the line each starts at.
Coroutines == {"resize", "available_batch_size", "clear", "is_empty", "rebalance"}

FirstLine(op) ==
    IF op = "resize" THEN 71
    ELSE IF op = "available_batch_size" THEN 109
    ELSE IF op = "clear" THEN 120
    ELSE IF op = "is_empty" THEN 132
    ELSE 153

\* new_batch_size of resize.
NewSizes == (0 - 1)..MaxBatch

\* with lock: (line 121) on an asyncio.Lock raises, with the exception of
\* the Python version: RuntimeError (3.7, 3.8), AttributeError (3.9, 3.10),
\* TypeError (3.11 on).
WithLockErrors == {"RuntimeError", "AttributeError", "TypeError"}

\* Mutant of GatherWaits: every await of a gather hands the loop over.
GatherWaitsAlways(n) == TRUE

\* await asyncio.gather(*coroutines), n coroutines (line 91): with none,
\* gather returns a future that is already done, and awaiting it does not
\* hand the loop over.
GatherWaits(n) == n > 0

\* removed_elements at line 91.  The loop of lines 85-87 is left only when
\* every queue past the new size is empty, so it has appended nothing.
RemovedElements == 0

\* np.delete(arr=group, obj=np.arange(new, batch_size)), lines 81 and 88.
Deleted(group, new, bs) ==
    SubSeq(group, 1, new) \o SubSeq(group, bs + 1, Len(group))

\* The body of rebalance (lines 155-173) run to its end, on the group as it
\* is: it raises, returns, or stays in a loop that holds no await ("spins":
\* pq.get() and pq.put() are not awaited and leave the queues as they are).
RebalanceOutcome ==
    IF pq_batch_size = 0 THEN Raise("ZeroDivisionError", 155)
    ELSE IF \E i \in 1..Len(pq_group) : QSize(i) * pq_batch_size > pq_size
    THEN [err |-> "spins", line |-> 160]
    ELSE IF \E i \in 1..Len(pq_group) : QSize(i) * pq_batch_size < pq_size
    THEN Raise("IndexError", 166)
    ELSE [err |-> "none", line |-> 0]

\* What a step of task t leaves as it is.
Kept(t) ==
    [pc |-> tk_pc[t], lock |-> tk_lock[t], run |-> t,
     group |-> pq_group, queues |-> pq_queues, bs |-> pq_batch_size]

\* The coroutine of task t goes on at line l.
Goto(t, l) == [Kept(t) EXCEPT !.pc.at = l]

\* The coroutine of task t ends: it returns (e = "none") or raises.  Its
\* lock is a local of the call, and an exception leaves async with through
\* __aexit__, which releases it.
Ended(t, e, l) ==
    [Kept(t) EXCEPT !.pc = [NoTask EXCEPT !.op = tk_pc[t].op, !.st = "ended",
                                          !.err = e, !.line = l],
                    !.lock = "none", !.run = 0]

\* The coroutine of task t has to wait at an await: the loop is free.
Waits(t, l) == [Kept(t) EXCEPT !.pc.st = "waiting", !.pc.at = l, !.run = 0]

\* await self.rebalance() inside resize (lines 92, 98): the coroutine runs
\* within the task, under a Lock of its own.
AwaitRebalance(t) ==
    LET r == RebalanceOutcome
    IN  IF r.err = "spins" THEN Kept(t)
        ELSE IF r.err # "none" THEN Ended(t, r.err, r.line)
        ELSE [Goto(t, 100) EXCEPT !.lock = "free"]

\* resize(new_batch_size, keep), lines 71-100.
ResizeStep(t) ==
    LET pc == tk_pc[t]
        past == {i \in (pc.new + 1)..Len(pq_group) : QSize(i) > 0}
        diff == pc.new - pq_batch_size
        fresh == Len(pq_queues) + 1
    IN  IF pc.at = 71
        THEN IF pc.new < 0 THEN Ended(t, "ValueError", 74)
             ELSE [Goto(t, 77) EXCEPT !.lock = "free"]
        ELSE IF pc.at = 77 THEN [Goto(t, 79) EXCEPT !.lock = "held"]
        ELSE IF pc.at = 79
        THEN IF pc.new < pq_batch_size
             THEN IF pc.keep THEN Goto(t, 85) ELSE Goto(t, 81)
             ELSE Goto(t, 97)
        ELSE IF pc.at = 81
        THEN [Goto(t, 100) EXCEPT !.group = Deleted(pq_group, pc.new, pq_batch_size),
                                  !.lock = "free"]
        ELSE IF pc.at = 85
        THEN IF past # {} THEN Kept(t) ELSE Goto(t, 88)
        ELSE IF pc.at = 88
        THEN [Goto(t, 91) EXCEPT !.group = Deleted(pq_group, pc.new, pq_batch_size)]
        ELSE IF pc.at = 91
        THEN IF GatherWaits(RemovedElements) THEN Waits(t, 92) ELSE Goto(t, 92)
        ELSE IF pc.at = 92 THEN AwaitRebalance(t)
        ELSE IF pc.at = 97
        THEN [Goto(t, 98) EXCEPT !.group = pq_group \o [i \in 1..diff |-> fresh],
                                 !.queues = Append(pq_queues, <<>>)]
        ELSE IF pc.at = 98 THEN AwaitRebalance(t)
        ELSE [Ended(t, "none", 0) EXCEPT !.bs = pc.new]

\* available_batch_size(), lines 109-112.
AvailableStep(t) ==
    LET pc == tk_pc[t]
    IN  IF pc.at = 109 THEN [Goto(t, 110) EXCEPT !.lock = "free"]
        ELSE IF pc.at = 110 THEN [Goto(t, 111) EXCEPT !.lock = "held"]
        ELSE IF pc.at = 111 THEN [Goto(t, 112) EXCEPT !.lock = "free"]
        ELSE Ended(t, "none", 0)

\* clear(), lines 120-124.
ClearStep(t, e) ==
    IF tk_pc[t].at = 120 THEN [Goto(t, 121) EXCEPT !.lock = "free"]
    ELSE Ended(t, e, 121)

\* is_empty(), lines 132-136.  Lock.acquire() on a Lock that is held waits
\* until the Lock is released, whoever holds it.
IsEmptyStep(t) ==
    LET pc == tk_pc[t]
    IN  IF pc.at = 132 THEN [Goto(t, 133) EXCEPT !.lock = "free"]
        ELSE IF pc.at = 133 THEN [Goto(t, 134) EXCEPT !.lock = "held"]
        ELSE IF pc.at = 134
        THEN IF tk_lock[t] = "held" THEN Waits(t, 134)
             ELSE [Goto(t, 136) EXCEPT !.lock = "free"]
        ELSE Ended(t, "none", 0)

\* rebalance() called by a task, lines 153-173.
RebalanceTaskStep(t) ==
    LET pc == tk_pc[t]
        r == RebalanceOutcome
    IN  IF pc.at = 153 THEN [Goto(t, 154) EXCEPT !.lock = "free"]
        ELSE IF pc.at = 154 THEN [Goto(t, 155) EXCEPT !.lock = "held"]
        ELSE IF r.err = "spins" THEN Kept(t)
        ELSE Ended(t, r.err, r.line)

StepResult(t, e) ==
    IF tk_pc[t].op = "resize" THEN ResizeStep(t)
    ELSE IF tk_pc[t].op = "available_batch_size" THEN AvailableStep(t)
    ELSE IF tk_pc[t].op = "clear" THEN ClearStep(t, e)
    ELSE IF tk_pc[t].op = "is_empty" THEN IsEmptyStep(t)
    ELSE RebalanceTaskStep(t)

\* A task is created for a call of a coroutine, by a caller outside the
\* tasks (between two turns of the loop); it runs when the loop gets to it.
\* Tasks are numbered in the order of their creation.
Call(t) ==
    /\ pq_phase = "built"
    /\ tk_run = 0
    /\ tk_pc[t].st = "idle"
    /\ \A u \in 1..(t - 1) : tk_pc[u].st # "idle"
    /\ \E op \in Coroutines :
         tk_pc' = [tk_pc EXCEPT ![t] =
                      [NoTask EXCEPT !.op = op, !.st = "ready", !.at = FirstLine(op)]]
    /\ UNCHANGED <<tk_lock, tk_run>>
    /\ UNCHANGED pqVars
    /\ UNCHANGED notTasks

\* What a waiting task waits for has happened: the Lock of line 134 was
\* released, or the future of the gather is done.
Woken(t) == IF tk_pc[t].at = 134 THEN tk_lock[t] = "free" ELSE TRUE

Runnable(t) ==
    IF tk_pc[t].st = "ready" THEN TRUE
    ELSE IF tk_pc[t].st = "waiting" THEN Woken(t)
    ELSE FALSE

\* The arguments a task goes on with: those of the call, which a resize
\* reads when it starts, and those it has once it runs.
Arguments(t, new, keep) ==
    IF tk_pc[t].st = "ready" /\ tk_pc[t].op = "resize" THEN TRUE
    ELSE new = tk_pc[t].new /\ keep = tk_pc[t].keep

\* The event loop, running no task, runs one that can go on.
Schedule(t) ==
    /\ tk_run = 0
    /\ Runnable(t)
    /\ tk_run' = t
    /\ \E new \in NewSizes, keep \in BOOLEAN :
         /\ Arguments(t, new, keep)
         /\ tk_pc' = [tk_pc EXCEPT ![t].st = "active", ![t].new = new, ![t].keep = keep]
    /\ UNCHANGED tk_lock
    /\ UNCHANGED pqVars
    /\ UNCHANGED notTasks

\* The running task executes its next statement.
TaskStep(t) ==
    /\ tk_run = t
    /\ \E e \in WithLockErrors :
         LET r == StepResult(t, e)
         IN  /\ tk_pc' = [tk_pc EXCEPT ![t] = r.pc]
             /\ tk_lock' = [tk_lock EXCEPT ![t] = r.lock]
             /\ tk_run' = r.run
             /\ pq_group' = r.group
             /\ pq_queues' = r.queues
             /\ pq_batch_size' = r.bs
    /\ UNCHANGED <<pq_phase, pq_size, pq_pc, pq_extra, pq_last>>
    /\ UNCHANGED notTasks

\* put(element) by a caller outside the tasks: it holds no await that waits,
\* so it runs between two turns of the loop.
TaskPut ==
    /\ tk_run = 0
    /\ Stored < MaxTaskPuts
    /\ Put

NextTasks ==
    \/ NewPriorityQueue
    \/ TaskPut
    \/ \E t \in Tasks : Call(t)
    \/ \E t \in Tasks : Schedule(t)
    \/ \E t \in Tasks : TaskStep(t)

SpecTasks == InitPQ /\ [][NextTasks]_vars

\* ------------------------------------------------------------- observers
\* The nodes linked from id, in order, following the attribute the pushes
\* write when they link a node (_UnrolledNode_next).
RECURSIVE ChainFrom(_, _)
ChainFrom(id, fuel) ==
    IF id = None \/ fuel = 0 THEN <<>>
    ELSE <<id>> \o ChainFrom(nodes[id].UnrolledNode_next, fuel - 1)

Chain == ChainFrom(head, Len(nodes))

\* filled: the length the node reports (UnrolledNode.__len__).
Filled(id) == NodeLen(nodes[id].array)

\* The occupied prefix of a node: its first filled slots.
OccupiedPrefix(id) == SubSeq(nodes[id].array, 1, Filled(id))

RECURSIVE Concat(_, _)
Concat(ids, i) ==
    IF i > Len(ids) THEN <<>>
    ELSE OccupiedPrefix(ids[i]) \o Concat(ids, i + 1)

\* toSequence(): every node's occupied prefix, in chain order.
ToSequence == Concat(Chain, 1)

RECURSIVE SumFilled(_, _)
SumFilled(ids, i) ==
    IF i > Len(ids) THEN 0 ELSE Filled(ids[i]) + SumFilled(ids, i + 1)

Appears(v, seq) == \E i \in 1..Len(seq) : PyEq(seq[i], v)

Reverse(seq) == [i \in 1..Len(seq) |-> seq[Len(seq) + 1 - i]]

HistVals == [i \in 1..Len(hist) |-> hist[i].val]
OnlyOp(op) == \A i \in 1..Len(hist) : hist[i].op = op

\* ------------------------------------------------------------- claims
InRange(lf) == lf.tenths > 0 /\ lf.tenths <= 5
ArgumentErrors == {"TypeError", "ValueError"}
LoadfactorLines == {180, 182}

\* C1 (as stated): on a list built empty with capacity C >= 1, after push_back
\* of v1..vn and nothing else, toSequence() is <<v1, ..., vn>>.
C1_PushBackKeepsOrder ==
    (phase = "built" /\ node_capacity.n >= 1 /\ OnlyOp("push_back"))
        => ToSequence = HistVals

\* C2 (as stated): on a list built empty with capacity C >= 1, after push_front
\* of v1..vn and nothing else, toSequence() is <<vn, ..., v1>>.
C2_PushFrontReversesOrder ==
    (phase = "built" /\ node_capacity.n >= 1 /\ OnlyOp("push_front"))
        => ToSequence = Reverse(HistVals)

C7_ConstructionStoresInitial ==
    (phase # "new" /\ hist = <<>> /\ node_capacity.n >= 1
        /\ loadfactor.isFloat /\ InRange(loadfactor))
        => /\ phase = "built"
           /\ size = Len(initial.items)
           /\ ToSequence = initial.items

\* C8 (as stated): construction with node_capacity < 1 fails with an
\* invalid-argument error, whatever the initial sequence.
C8_CapacityBelowOneRejected ==
    (phase # "new" /\ node_capacity.n < 1)
        => (phase = "failed" /\ err \in ArgumentErrors /\ hist = <<>>)

\* C9: construction with a loadfactor <= 0 or > 0.5 fails with an argument
\* error raised by the loadfactor checks, and those checks reject no float
\* loadfactor in (0, 0.5].
C9_LoadfactorRange ==
    phase # "new"
        => /\ ~InRange(loadfactor)
               => (phase = "failed" /\ err \in ArgumentErrors
                      /\ errLine \in LoadfactorLines)
           /\ (loadfactor.isFloat /\ InRange(loadfactor))
               => ~(phase = "failed" /\ errLine \in LoadfactorLines)

\* C9 witness: a float loadfactor just above 0.5 has been rejected.
C9_TooLargeRejected ==
    /\ phase = "failed"
    /\ loadfactor.isFloat
    /\ loadfactor.tenths = 6
    /\ err = "ValueError"
    /\ errLine = 182

\* C10 (as stated): when construction fails, no attribute has been assigned
\* and no node exists: size, head and tail are untouched.
C10_FailsBeforeAnyAssignment ==
    phase = "failed"
        => (~assigned /\ size = 0 /\ node_count = 0
               /\ head = None /\ tail = None /\ nodes = <<>>)

\* The nodes a traversal by curr = curr.next visits from id (the loop of
\* contains, lines 276-280): it ends at None, or where the property raises.
RECURSIVE NextChainFrom(_, _)
NextChainFrom(id, fuel) ==
    IF id = None \/ fuel = 0 THEN <<>>
    ELSE LET r == NextProperty(id)
         IN  <<id>> \o (IF r.err # "none" THEN <<>>
                        ELSE NextChainFrom(r.node, fuel - 1))

NextChain == NextChainFrom(head, Len(nodes))

\* v is held (by ==) in some slot of some node created so far.
InSomeNode(v) == \E id \in 1..Len(nodes) : NodeContains(nodes[id].array, v)

CeilHalf(n) == (n + 1) \div 2

\* C11 (as stated): on a list that was constructed with capacity >= 1,
\* push_back, push_front and contains never raise.
C11_OperationsNeverRaise ==
    (phase = "built" /\ node_capacity.n >= 1) => err = "none"

\* C12 (as stated): a constructed list (capacity >= 1) is either Empty (head
\* and tail None, size 0) or NonEmpty (head and tail set, every node of the
\* chain with filled >= 1), and it is NonEmpty once a push has been called.
C12_Empty ==
    head = None /\ tail = None /\ size = 0 /\ is_empty

C12_NonEmpty ==
    /\ head # None
    /\ tail # None
    /\ ~is_empty
    /\ \A i \in 1..Len(Chain) : Filled(Chain[i]) >= 1

C12_TwoMacroStates ==
    (phase = "built" /\ node_capacity.n >= 1)
        => /\ C12_Empty \/ C12_NonEmpty
           /\ ~(C12_Empty /\ C12_NonEmpty)
           /\ hist # <<>> => C12_NonEmpty

C14_FirstSplitAfterCapacity ==
    (phase = "built" /\ node_capacity.n >= 1 /\ hist # <<>> /\ OnlyOp("push_back"))
        => LET n == node_capacity.n
               k == Len(hist)
           IN  /\ k <= n
                    => /\ Len(nodes) = 1
                       /\ ToSequence = HistVals
               /\ k = n + 1
                    => /\ Len(nodes) = 2
                       /\ Len(Chain) = 2
                       /\ OccupiedPrefix(Chain[1]) = SubSeq(HistVals, 1, CeilHalf(n))
                       /\ OccupiedPrefix(Chain[2]) = SubSeq(HistVals, CeilHalf(n) + 1, k)

Elements(id) == {i \in 1..Len(nodes[id].array) : nodes[id].array[i] \in Vals}

IsPrefix(pre, seq) ==
    Len(pre) <= Len(seq) /\ SubSeq(seq, 1, Len(pre)) = pre

\* C18 (as stated): the elements returned so far are a prefix of the elements
\* pushed, in order, and a pop that returns hands out batch_size elements, or
\* all that were pushed and not yet returned when those are fewer.
C18_FifoInBatches ==
    bqPhase = "built"
        => /\ IsPrefix(returned, queue)
           /\ (last.op = "pop" /\ last.err = "none")
                => Len(last.batch) = Min(batch_size, last.unreturnedBefore)

\* C19 (as stated): a pop(enforce=False) that finds fewer than batch_size
\* elements returns exactly those and leaves size() = 0, never below.
C19_ShortPopEmptiesQueue ==
    (bqPhase = "built" /\ last.op = "pop" /\ ~last.enforce
        /\ last.unreturnedBefore < batch_size)
        => /\ Len(last.batch) = last.unreturnedBefore
           /\ BatchedQueueLen = 0
           /\ Unreturned = 0

\* C20 (as stated): pop(enforce=True) raises ValueError exactly when fewer
\* than batch_size elements are pushed and not yet returned, and then leaves
\* the contents and size() as they were.
C20_EnforcedPopRaisesIffShort ==
    (bqPhase = "built" /\ last.op = "pop" /\ last.enforce)
        => /\ last.err = "ValueError" <=> last.unreturnedBefore < batch_size
           /\ last.err = "ValueError"
                => /\ queue_start_index = last.startBefore
                   /\ BatchedQueueLen = last.lenBefore

\* The same with "available" read as size(), the count the queue keeps.
C20_EnforcedPopRaisesIffSizeShort ==
    (bqPhase = "built" /\ last.op = "pop" /\ last.enforce)
        => /\ last.err = "ValueError" <=> last.lenBefore < batch_size
           /\ last.err = "ValueError"
                => /\ queue_start_index = last.startBefore
                   /\ BatchedQueueLen = last.lenBefore

\* C21 (as stated): push raises ValueError only when maxsize is nonzero and
\* size() has reached it; with maxsize = 0 every push succeeds and adds one
\* to size().
C21_PushRaisesOnlyAtMaxsize ==
    (bqPhase = "built" /\ last.op = "push")
        => /\ last.err = "ValueError"
                => (maxsize # 0 /\ last.lenBefore >= maxsize)
           /\ maxsize = 0
                => /\ last.err = "none"
                   /\ BatchedQueueLen = last.lenBefore + 1

\* The nodes reached from id by the links the list follows, in order.
RECURSIVE SLChainFrom(_, _, _)
SLChainFrom(links, id, fuel) ==
    IF id < 1 \/ fuel = 0 THEN <<>>
    ELSE <<id>> \o SLChainFrom(links, links[id], fuel - 1)

SLChainBefore == SLChainFrom(sl_last.before.links, sl_last.before.head,
                             Len(sl_last.before.links))
SLChainNow == SLChainFrom(Links(sl_nodes), sl_head, Len(sl_nodes))

InSeq(x, seq) == \E i \in 1..Len(seq) : seq[i] = x

Without(seq, x) == SelectSeq(seq, LAMBDA y : y # x)

RECURSIVE InsertBefore(_, _, _)
InsertBefore(seq, x, y) ==
    IF seq = <<>> THEN <<>>
    ELSE IF Head(seq) = y THEN <<x>> \o seq
    ELSE <<Head(seq)>> \o InsertBefore(Tail(seq), x, y)

MovedMissingNode ==
    /\ sl_last.op \in {"move_before", "move_after"}
    /\ \/ ~InSeq(sl_last.a, SLChainBefore)
       \/ ~InSeq(sl_last.b, SLChainBefore)

RebalanceReturned == pq_pc = Idle /\ pq_last.op = "rebalance" /\ pq_last.err = "none"

\* The sizes of any two queues of the group differ by at most one.
EvenlySpread ==
    \A i \in 1..Len(pq_group), j \in 1..Len(pq_group) : QSize(i) - QSize(j) <= 1

C24_IfReturnedThenEven ==
    RebalanceReturned => (Stored = pq_last.storedBefore /\ EvenlySpread)

\* rebalance returns only on a group that holds no element.
C24_ReturnsOnlyWhenEmpty ==
    RebalanceReturned => Stored = 0

\* ------------------------------------------------------------- single pushes
\* This step is a push_back / push_front call; Pushed is its argument.
IsPush(op) ==
    /\ Len(hist') = Len(hist) + 1
    /\ hist'[Len(hist')].op = op

Pushed == hist'[Len(hist')].val

\* The slots of an array that hold an element, and whether they are its
\* first slots.
Held(array) == {i \in 1..Len(array) : array[i] \in Vals}
LeftPacked(array) == Held(array) = 1..Cardinality(Held(array))

\* The arrays of the head and of the tail before the step, and the arrays the
\* same two nodes have after it.
HeadArray == nodes[head].array
TailArray == nodes[tail].array
OldHeadAfter == nodes'[head].array
OldTailAfter == nodes'[tail].array

C29_FirstPushMakesOneNode ==
    [][((IsPush("push_back") \/ IsPush("push_front")) /\ head = None
            /\ node_capacity.n >= 1)
         => /\ err' = "none"
            /\ Len(nodes') = 1
            /\ head' = 1
            /\ tail' = 1
            /\ Held(nodes'[1].array) = {1}
            /\ nodes'[1].array[1] = Pushed
            /\ NodeLen(nodes'[1].array) = 1
            /\ size' = 1]_vars

\* C30 (as stated): every push_back and every push_front that completes
\* adds one to the size.
C30_PushAddsOneToSize ==
    [][((IsPush("push_back") \/ IsPush("push_front")) /\ err' = "none")
         => size' = size + 1]_vars

C32_ConstructionPartitions ==
    (phase # "new" /\ hist = <<>> /\ initial.given /\ Len(initial.items) > 0
        /\ node_capacity.n >= 1 /\ loadfactor.isFloat /\ InRange(loadfactor))
        => /\ phase = "built"
           /\ Len(Chain) >= 1
           /\ node_count = Len(Chain)
           /\ \A i, j \in 1..Len(Chain) :
                 i < j => /\ Filled(Chain[i]) >= Filled(Chain[j])
                          /\ Filled(Chain[i]) - Filled(Chain[j]) <= 1
           /\ SumFilled(Chain, 1) = Len(initial.items)
           /\ ToSequence = initial.items

\* The abstract double-ended sequence after the pushes of hist[1..k]: a
\* push_front value is prepended, a push_back value appended.
RECURSIVE Abstract(_)
Abstract(k) ==
    IF k = 0 THEN initial.items
    ELSE IF hist[k].op = "push_front" THEN <<hist[k].val>> \o Abstract(k - 1)
    ELSE Append(Abstract(k - 1), hist[k].val)

\* C33 (as stated): after a construction with capacity >= 1 and any
\* interleaving of completed push_back and push_front calls, toSequence() is
\* the abstract sequence: the initial sequence with every push_front value
\* prepended and every push_back value appended.
C33_RefinesDeque ==
    (phase = "built" /\ err = "none" /\ node_capacity.n >= 1)
        => ToSequence = Abstract(Len(hist))

C37_EmptyIffSizeZero ==
    bqPhase = "built"
        => /\ BatchedQueueIsEmpty <=> BatchedQueueLen = 0
           /\ last.op = "clear" => (BatchedQueueLen = 0 /\ BatchedQueueIsEmpty)

\* ------------------------------------------------------------- tasks and locks
\* Every task other than t has not been created or has ended.
Alone(t) == \A u \in Tasks \ {t} : tk_pc[u].st \in {"idle", "ended"}

\* Task t waits at an acquire() for the Lock it holds itself.
WaitsForOwnLock(t) ==
    /\ tk_pc[t].st = "waiting"
    /\ tk_pc[t].at = 134
    /\ tk_lock[t] = "held"

\* C38 (as stated): a call of is_empty() or clear() made while no other task
\* runs never waits to acquire a Lock that the call itself holds.
C38_NeverWaitsForOwnLock ==
    \A t \in Tasks :
        (tk_pc[t].op \in {"is_empty", "clear"} /\ Alone(t)) => ~WaitsForOwnLock(t)

\* Task t is inside the lock-guarded section of resize, rebalance or
\* available_batch_size: it holds the Lock of its call.
InSection(t) ==
    /\ tk_pc[t].op \in {"resize", "rebalance", "available_batch_size"}
    /\ tk_lock[t] = "held"

\* Task t is in a resize that has assigned the group (lines 81, 88, 97) and
\* not yet the batch size (line 100).
MidResize(t) ==
    /\ tk_pc[t].op = "resize"
    /\ tk_pc[t].st \in {"active", "waiting"}
    /\ tk_pc[t].at \in {91, 92, 98, 100}

====
